---- MODULE Spec2Model ----
(***************************************************************************)
(* Model of djchat/server/views.py: ServerListViewSet.list, the endpoint   *)
(* that lists chat servers filtered by query parameters.                   *)
(*                                                                         *)
(* Text values (query parameters, category names, error details) are       *)
(* sequences of one-character strings, so that int() and the f-string of   *)
(* the handler are computed and not assumed.  A queryset is the lazy       *)
(* description of a query (its filters, its join on the member relation,   *)
(* its annotation and its slice); Evaluate runs it against the tables.     *)
(***************************************************************************)
EXTENDS Integers, Sequences, FiniteSets

\* ---- bounds of the stored data ----
MaxServers == 2
MaxUsers == 2

ServerIds == 1..MaxServers
UserIds == 1..MaxUsers

\* ---- text ----
True == <<"t", "r", "u", "e">>
False == <<"f", "a", "l", "s", "e">>
General == <<"g", "e", "n">>
Gaming == <<"g", "a", "m">>
Music == <<"m", "u", "s">>
CategoryNames == {General, Gaming}

\* The category tables the model starts from: every server in one category,
\* and the servers alternating between two.
CategoryTables ==
    {[s \in ServerIds |-> General],
     [s \in ServerIds |-> IF s % 2 = 1 THEN General ELSE Gaming]}

DigitChars == {"0", "1", "2", "3", "4", "5", "6", "7", "8", "9"}

DigitValue(c) ==
    CASE c = "0" -> 0 [] c = "1" -> 1 [] c = "2" -> 2 [] c = "3" -> 3
      [] c = "4" -> 4 [] c = "5" -> 5 [] c = "6" -> 6 [] c = "7" -> 7
      [] c = "8" -> 8 [] c = "9" -> 9

RECURSIVE DigitsValue(_)
DigitsValue(s) ==
    IF s = <<>> THEN 0
    ELSE 10 * DigitsValue(SubSeq(s, 1, Len(s) - 1)) + DigitValue(s[Len(s)])

IsDigits(s) == s # <<>> /\ \A i \in 1..Len(s) : s[i] \in DigitChars

\* Python's int(str): an optional sign and decimal digits, ValueError otherwise.
int(s) ==
    IF s # <<>> /\ s[1] \in {"-", "+"}
    THEN IF IsDigits(Tail(s))
         THEN [ok |-> TRUE,
               value |-> IF s[1] = "-" THEN 0 - DigitsValue(Tail(s)) ELSE DigitsValue(Tail(s))]
         ELSE [ok |-> FALSE, value |-> 0]
    ELSE IF IsDigits(s)
         THEN [ok |-> TRUE, value |-> DigitsValue(s)]
         ELSE [ok |-> FALSE, value |-> 0]

\* ---- query parameters ----
\* request.query_params.get(name): None when the parameter is absent.
None == [given |-> FALSE, text |-> <<>>]
Param(t) == [given |-> TRUE, text |-> t]

\* truth value of `if x:` for x a str or None
Truthy(p) == p.given /\ p.text # <<>>

\* x == "true"
IsTrue(p) == p.given /\ p.text = True

\* ---- the requesting principal ----
AnonymousUser == [is_authenticated |-> FALSE, id |-> 0]
User(u) == [is_authenticated |-> TRUE, id |-> u]
\* The handler only compares user ids for equality, so the authenticated
\* requester is user 1 and the other users are the other members.
Principals == {AnonymousUser, User(1)}

CategoryValues == {None, Param(General), Param(Music)}
QtyValues == {None, Param(<<"0">>), Param(<<"1">>), Param(<<"-", "1">>), Param(<<"x">>)}
ByUserValues == {None, Param(True), Param(False)}
ByServerIdValues == {None, Param(<<"1">>), Param(<<"9">>), Param(<<"x">>)}
WithNumMembersValues == {None, Param(True)}

Requests ==
    [category : CategoryValues, qty : QtyValues, by_user : ByUserValues,
     by_serverid : ByServerIdValues, with_num_members : WithNumMembersValues,
     user : Principals]

NoRequest ==
    [category |-> None, qty |-> None, by_user |-> None, by_serverid |-> None,
     with_num_members |-> None, user |-> AnonymousUser]

VARIABLES
    member,        \* Server.member: server id -> set of user ids (many-to-many)
    category_of,   \* Server.category.name: server id -> category name
    viewset,       \* the queryset attribute of the class (cls) and of the instance serving the request (inst, when has_inst)
    pc,            \* "idle" or "responded"
    request,       \* the request being served
    response,      \* the response to it
    served         \* while idle: how the request just served ended ("none" before any, "ok", "failed")

vars == <<member, category_of, viewset, pc, request, response, served>>

\* ---- querysets ----
Off == [on |-> FALSE, text |-> <<>>, id |-> 0]
OnText(t) == [on |-> TRUE, text |-> t, id |-> 0]
OnId(i) == [on |-> TRUE, text |-> <<>>, id |-> i]

\* Server.objects.all()
AllServers ==
    [category |-> Off, member |-> Off, pk |-> Off,
     annotated |-> FALSE, sliced |-> FALSE, high |-> 0]

\* queryset.filter(category__name = name)
FilterCategory(qs, name) == [qs EXCEPT !.category = OnText(name)]

\* faulty variant: the member filter is dropped
FilterMemberAll(qs, user_id) == qs

\* queryset.filter(member = user_id): inner join on the member relation
FilterMember(qs, user_id) == [qs EXCEPT !.member = OnId(user_id)]

\* queryset.annotate(num_members = Count("member"))
Annotate(qs) == [qs EXCEPT !.annotated = TRUE]

\* queryset[: n], n >= 0
Slice(qs, n) == [qs EXCEPT !.sliced = TRUE, !.high = n]

\* queryset.filter(id = i)
FilterId(qs, i) == [qs EXCEPT !.pk = OnId(i)]

\* The rows of the member relation joined to server s.  A filter on member
\* joins it and keeps the rows of that user; Count("member") in a later
\* annotate reuses that join, and joins the whole relation when there is none.
JoinedMembers(qs, s) ==
    IF qs.member.on THEN {u \in member[s] : u = qs.member.id} ELSE member[s]

Selected(qs, s) ==
    /\ qs.category.on => category_of[s] = qs.category.text
    /\ qs.member.on => JoinedMembers(qs, s) # {}
    /\ qs.pk.on => s = qs.pk.id

\* the default order of the table: by primary key
Ordered(S) == SelectSeq([i \in 1..MaxServers |-> i], LAMBDA i : i \in S)

Take(seq, n) == SubSeq(seq, 1, IF n < Len(seq) THEN n ELSE Len(seq))

Row(qs, s) ==
    [id |-> s, category |-> category_of[s],
     num_members |-> IF qs.annotated THEN Cardinality(JoinedMembers(qs, s)) ELSE 0]

\* faulty variant: the slice is taken from the table before the filters apply
EvaluateSliceFirst(qs) ==
    LET first == IF qs.sliced THEN Take(Ordered(ServerIds), qs.high) ELSE Ordered(ServerIds)
        kept == SelectSeq(first, LAMBDA s : Selected(qs, s))
    IN  [i \in 1..Len(kept) |-> Row(qs, kept[i])]

\* the rows the query returns: filter, order, then slice
Evaluate(qs) ==
    LET ids == Ordered({s \in ServerIds : Selected(qs, s)})
        kept == IF qs.sliced THEN Take(ids, qs.high) ELSE ids
    IN  [i \in 1..Len(kept) |-> Row(qs, kept[i])]

\* queryset.exists()
Exists(qs) == Evaluate(qs) # <<>>

\* ---- attribute access on the view instance ----
\* self.queryset reads the instance attribute and falls back to the class attribute
GetQueryset(view) == IF view.has_inst THEN view.inst ELSE view.cls

\* faulty variant: the assignment rebinds the attribute of the class
SetQuerysetOnClass(view, qs) == [view EXCEPT !.cls = qs]

\* self.queryset = qs binds the attribute on the instance
SetQueryset(view, qs) == [view EXCEPT !.has_inst = TRUE, !.inst = qs]

\* ---- exceptions and responses ----
NoException == [kind |-> "none", detail |-> <<>>]
AuthenticationFailed == [kind |-> "AuthenticationFailed", detail |-> <<>>]
ValidationError(detail) == [kind |-> "ValidationError", detail |-> detail]
Unhandled(what) == [kind |-> "Unhandled", detail |-> <<what>>]

NotFoundDetail(by_serverid) == <<"Server with id ">> \o by_serverid \o <<" no found">>
ValueErrorDetail == <<"Server value error">>

StatusCode(kind) ==
    CASE kind = "OK" -> 200
      [] kind = "AuthenticationFailed" -> 401
      [] kind = "ValidationError" -> 400
      [] OTHER -> 500

NoResponse == [kind |-> "none", status |-> 0, detail |-> <<>>, data |-> <<>>]

\* ---- the serializer ----
\* ServerSerializer(queryset, many=True, context={"num_members": flag}).data:
\* one record per row, with num_members only when the flag is set.
ServerSerializer(qs, with_num_members) ==
    LET rows == Evaluate(qs)
    IN  [i \in 1..Len(rows) |->
            [id |-> rows[i].id, category |-> rows[i].category,
             has_num_members |-> with_num_members,
             num_members |-> IF with_num_members THEN rows[i].num_members ELSE 0]]

\* ---- the handler, statement by statement ----
\* h is the handler's progress: the view it runs on and the exception raised so far.
Start(view) == [view |-> view, exc |-> NoException]
Raise(h, e) == [h EXCEPT !.exc = e]
Assign(h, qs) == [h EXCEPT !.view = SetQueryset(h.view, qs)]
Running(h) == h.exc = NoException

\* if category: self.queryset = self.queryset.filter(category__name = category)
ByCategory(h, req) ==
    IF Running(h) /\ Truthy(req.category)
    THEN Assign(h, FilterCategory(GetQueryset(h.view), req.category.text))
    ELSE h

\* variant: authentication is required only when by_user is "true"
ByUserGuarded(h, req) ==
    IF ~Running(h) THEN h
    ELSE IF IsTrue(req.by_user)
         THEN IF req.user.is_authenticated
              THEN Assign(h, FilterMember(GetQueryset(h.view), req.user.id))
              ELSE Raise(h, AuthenticationFailed)
         ELSE h

\* variant: the member filter is applied to every authenticated request
ByUserUnconditional(h, req) ==
    IF ~Running(h) THEN h
    ELSE IF req.user.is_authenticated
         THEN Assign(h, FilterMember(GetQueryset(h.view), req.user.id))
         ELSE Raise(h, AuthenticationFailed)

\* if by_user and request.user.is_authenticated: ... else: raise AuthenticationFailed()
ByUser(h, req) ==
    IF ~Running(h) THEN h
    ELSE IF IsTrue(req.by_user) /\ req.user.is_authenticated
         THEN Assign(h, FilterMember(GetQueryset(h.view), req.user.id))
         ELSE Raise(h, AuthenticationFailed)

\* if with_num_members: self.queryset = self.queryset.annotate(num_members = Count("member"))
WithNumMembers(h, req) ==
    IF Running(h) /\ IsTrue(req.with_num_members)
    THEN Assign(h, Annotate(GetQueryset(h.view)))
    ELSE h

\* if qty: self.queryset = self.queryset[: int(qty)]
Qty(h, req) ==
    IF Running(h) /\ Truthy(req.qty)
    THEN LET n == int(req.qty.text)
         IN  IF ~n.ok THEN Raise(h, Unhandled("invalid literal for int()"))
             ELSE IF n.value < 0 THEN Raise(h, Unhandled("Negative indexing is not supported."))
             ELSE Assign(h, Slice(GetQueryset(h.view), n.value))
    ELSE h

\* if by_serverid: ... filter(id = by_serverid) ... exists() ...
ByServerId(h, req) ==
    IF Running(h) /\ Truthy(req.by_serverid)
    THEN IF ~req.user.is_authenticated THEN Raise(h, AuthenticationFailed)
         ELSE IF GetQueryset(h.view).sliced
              THEN Raise(h, Unhandled("Cannot filter a query once a slice has been taken."))
         ELSE LET i == int(req.by_serverid.text)
              IN  IF ~i.ok THEN Raise(h, ValidationError(ValueErrorDetail))
                  ELSE LET narrowed == Assign(h, FilterId(GetQueryset(h.view), i.value))
                       IN  IF ~Exists(GetQueryset(narrowed.view))
                           THEN Raise(narrowed, ValidationError(NotFoundDetail(req.by_serverid.text)))
                           ELSE narrowed
    ELSE h

Handle(view, req) ==
    ByServerId(Qty(WithNumMembers(ByUser(ByCategory(Start(view), req), req), req), req), req)

\* return Response(serializer.data), or the response made of the exception
ResponseOf(h, req) ==
    IF Running(h)
    THEN [kind |-> "OK", status |-> StatusCode("OK"), detail |-> <<>>,
          data |-> ServerSerializer(GetQueryset(h.view), IsTrue(req.with_num_members))]
    ELSE [kind |-> h.exc.kind, status |-> StatusCode(h.exc.kind), detail |-> h.exc.detail,
          data |-> <<>>]

\* ---- the state machine ----
NewView == [cls |-> AllServers, has_inst |-> FALSE, inst |-> AllServers]

Init ==
    /\ member \in [ServerIds -> SUBSET UserIds]
    /\ category_of \in CategoryTables
    /\ viewset = NewView
    /\ pc = "idle"
    /\ request = NoRequest
    /\ response = NoResponse
    /\ served = "none"

\* a request is dispatched to a new instance of the view, whose list() runs to its end
list(req) ==
    /\ pc = "idle"
    /\ LET h == Handle(viewset, req)
       IN  /\ viewset' = h.view
           /\ response' = ResponseOf(h, req)
    /\ request' = req
    /\ pc' = "responded"
    /\ served' = "none"
    /\ UNCHANGED <<member, category_of>>

\* the response is sent and the instance that served the request is dropped
Finish ==
    /\ pc = "responded"
    /\ viewset' = [viewset EXCEPT !.has_inst = FALSE, !.inst = AllServers]
    /\ served' = IF response.kind = "OK" THEN "ok" ELSE "failed"
    /\ request' = NoRequest
    /\ response' = NoResponse
    /\ pc' = "idle"
    /\ UNCHANGED <<member, category_of>>

Next ==
    \/ \E req \in Requests : list(req)
    \/ Finish

Spec == Init /\ [][Next]_vars

\* ---- properties ----
Responded == pc = "responded"
Authenticated == request.user.is_authenticated

ReturnedIds == [i \in 1..Len(response.data) |-> response.data[i].id]
ReturnedIdSet == {response.data[i].id : i \in 1..Len(response.data)}
Memberships(u) == {s \in ServerIds : u \in member[s]}

OnlyByUser ==
    /\ IsTrue(request.by_user)
    /\ request.category = None /\ request.qty = None
    /\ request.by_serverid = None /\ request.with_num_members = None

NoParameters ==
    /\ request.by_user = None /\ request.category = None /\ request.qty = None
    /\ request.by_serverid = None /\ request.with_num_members = None

C4_UnknownServerIdIsValidationError ==
    (/\ Responded /\ Authenticated
     /\ Truthy(request.by_serverid) /\ int(request.by_serverid.text).ok
     /\ int(request.by_serverid.text).value \notin ServerIds
     /\ request.by_user = None /\ request.category = None
     /\ request.qty = None /\ request.with_num_members = None) =>
        /\ response.status = 400
        /\ response.detail = <<"Server with id ">> \o request.by_serverid.text \o <<" no found">>
        /\ response.data = <<>>

\* C5: a request with category=X from an authenticated principal returns
\* only servers of category X, and HTTP 200 with an empty list when no
\* server has category X.  Stated for category given alone.
C5_CategoryFilters ==
    (/\ Responded /\ Authenticated /\ Truthy(request.category)
     /\ request.by_user = None /\ request.by_serverid = None
     /\ request.qty = None /\ request.with_num_members = None) =>
        /\ \A i \in 1..Len(response.data) : response.data[i].category = request.category.text
        /\ (\A s \in ServerIds : category_of[s] # request.category.text) =>
               (response.status = 200 /\ response.data = <<>>)

\* C6: a successful request with qty=N returns at most N servers: the first
\* N, in the default order, of the servers that pass the category and the
\* membership filters (all of them when fewer than N pass).
Filtered ==
    Ordered({s \in ServerIds :
                /\ Truthy(request.category) => category_of[s] = request.category.text
                /\ IsTrue(request.by_user) => request.user.id \in member[s]})

C6_QtyTruncatesFilteredSet ==
    (Responded /\ response.status = 200 /\ Truthy(request.qty)) =>
        LET n == int(request.qty.text)
        IN  /\ n.ok /\ n.value >= 0
            /\ Len(response.data) <= n.value
            /\ ReturnedIds = Take(Filtered, n.value)

C6_Witness ==
    /\ Responded /\ response.status = 200
    /\ request.qty = Param(<<"1">>) /\ Truthy(request.category)
    /\ Len(Filtered) > 1
    /\ ReturnedIds = <<Filtered[1]>>

\* C7: a successful request with with_num_members=true reports every
\* returned server with num_members equal to the number of members of that
\* server, also when the result is restricted by the by_user filter.
C7_NumMembersIsTotal ==
    (Responded /\ response.status = 200 /\ IsTrue(request.with_num_members)) =>
        \A i \in 1..Len(response.data) :
            /\ response.data[i].has_num_members
            /\ response.data[i].num_members = Cardinality(member[response.data[i].id])

\* C8: a request whose by_serverid is not parseable as an integer fails with
\* HTTP 400 and the detail "Server value error".  Stated for an
\* authenticated principal and by_serverid given alone.
C8_BadServerIdIsValidationError ==
    (/\ Responded /\ Authenticated
     /\ Truthy(request.by_serverid) /\ ~int(request.by_serverid.text).ok
     /\ request.by_user = None /\ request.category = None
     /\ request.qty = None /\ request.with_num_members = None) =>
        response.status = 400 /\ response.detail = <<"Server value error">>

\* C9: every request ends in HTTP 200, in AuthenticationFailed or in a
\* Validation error (HTTP 400); no other failure escapes the handler.
C9_ThreeOutcomes ==
    Responded => response.kind \in {"OK", "AuthenticationFailed", "ValidationError"}

\* C10: the queryset of the class stays the unfiltered set of all servers
\* after any sequence of requests, and the response to a request is the one
\* a handler starting from the unfiltered queryset gives to that request on
\* the stored data.
C10_Stateless ==
    /\ viewset.cls = AllServers
    /\ Responded => response = ResponseOf(Handle(NewView, request), request)

C10_Witness ==
    /\ pc = "idle" /\ served = "ok"
    /\ viewset.cls = AllServers /\ ~viewset.has_inst

====
